---- MODULE Spec2Model ----
(***************************************************************************)
(* Model of webtool/webtool.py: the Flask routes /content and              *)
(* /search0 .. /search4 over the Solr search client.                       *)
(*                                                                         *)
(* Python values are tagged records: None, a str (a sequence of one        *)
(* character strings) or an int.  A request is handled by one worker; a    *)
(* handler runs in two steps, up to the blocking client call and from the  *)
(* client's answer to the response.                                        *)
(***************************************************************************)
EXTENDS Integers, Sequences, FiniteSets

VARIABLES config, reqs

vars == <<config, reqs>>

(* ------------------------------ bounds --------------------------------- *)

\* page values -1 .. MaxPage are sent as decimal strings
MaxPage == 2

\* worker threads handling requests at the same time (SpecConc)
NumWorkers == 2

(* --------------------------- python values ----------------------------- *)

None == [t |-> "none"]

StrObj(s) == [t |-> "str", s |-> s]

IntObj(n) == [t |-> "int", n |-> n]

\* truth value of an object, as tested by `if q:` and `page if page else 1`
Truthy(v) ==
    CASE v.t = "none" -> FALSE
      [] v.t = "str" -> v.s # <<>>
      [] v.t = "int" -> v.n # 0

Whitespace == {" ", "\t", "\n"}

Digits == <<"0", "1", "2", "3", "4", "5", "6", "7", "8", "9">>

IsDigit(c) == \E i \in 1..10 : Digits[i] = c

DigitVal(c) == (CHOOSE i \in 1..10 : Digits[i] = c) - 1

\* str(n) for an integer n
RECURSIVE Format(_)
Format(n) ==
    IF n < 0 THEN <<"-">> \o Format(-n)
    ELSE IF n < 10 THEN <<Digits[n + 1]>>
    ELSE Format(n \div 10) \o <<Digits[(n % 10) + 1]>>

\* s.strip()
RECURSIVE LStrip(_)
LStrip(s) == IF s # <<>> /\ Head(s) \in Whitespace THEN LStrip(Tail(s)) ELSE s

RECURSIVE RStrip(_)
RStrip(s) ==
    IF s # <<>> /\ s[Len(s)] \in Whitespace THEN RStrip(SubSeq(s, 1, Len(s) - 1)) ELSE s

Strip(s) == RStrip(LStrip(s))

RECURSIVE DigitsValue(_)
DigitsValue(s) ==
    IF s = <<>> THEN 0 ELSE 10 * DigitsValue(SubSeq(s, 1, Len(s) - 1)) + DigitVal(s[Len(s)])

AllDigits(s) == s # <<>> /\ \A i \in 1..Len(s) : IsDigit(s[i])

\* whether int(s) succeeds on the str s: blanks, an optional sign, digits
ParsesAsInt(s) ==
    LET u == Strip(s)
    IN  /\ u # <<>>
        /\ IF Head(u) \in {"+", "-"} THEN AllDigits(Tail(u)) ELSE AllDigits(u)

\* int(s)
ParseInt(s) ==
    LET u == Strip(s)
    IN  IF Head(u) = "-" THEN 0 - DigitsValue(Tail(u))
        ELSE IF Head(u) = "+" THEN DigitsValue(Tail(u))
        ELSE DigitsValue(u)

\* whether the value is a number or a str that parses as one
HasIntValue(v) == v.t = "int" \/ (v.t = "str" /\ ParsesAsInt(v.s))

IntValue(v) == IF v.t = "int" THEN v.n ELSE ParseInt(v.s)

(* ------------------------- requests (inputs) --------------------------- *)

cats == <<"c", "a", "t", "s">>

QArgs == {None, StrObj(<<>>), StrObj(<<" ">>), StrObj(cats)}

PageArgs ==
    {None, StrObj(<<>>), StrObj(<<"a", "b", "c">>)} \cup {StrObj(Format(n)) : n \in -1..MaxPage}

FkArgs == {None, StrObj(<<"c", "o", "l", "o", "r">>)}

FaArgs == {None, StrObj(<<"b", "l", "a", "c", "k">>)}

\* ids of the documents the plain index holds, and the ids requests ask for
KnownIds == {<<"d", "1">>}

IdArgs == {None, StrObj(<<"d", "1">>), StrObj(<<"d", "9">>)}

PlainRoutes == {"/search0", "/search1", "/search2"}

FacetedRoutes == {"/search3", "/search4"}

SearchRoutes == PlainRoutes \cup FacetedRoutes

Args(q, page, fk, fa, id) == [q |-> q, page |-> page, fk |-> fk, fa |-> fa, id |-> id]

Requests ==
    {[route |-> r, args |-> Args(q, p, None, None, None)] :
        r \in PlainRoutes, q \in QArgs, p \in PageArgs}
    \cup {[route |-> r, args |-> Args(q, p, fk, fa, None)] :
        r \in FacetedRoutes, q \in QArgs, p \in PageArgs, fk \in FkArgs, fa \in FaArgs}
    \cup {[route |-> "/content", args |-> Args(None, None, None, None, id)] : id \in IdArgs}

\* the requests sent while several workers run
ConcRequests ==
    {rq \in Requests :
        /\ rq.args.q \in {None, StrObj(cats)}
        /\ rq.route \in SearchRoutes => rq.args.page = StrObj(Format(MaxPage))
        /\ rq.route \in FacetedRoutes => rq.args.fk # None
        /\ rq.route = "/content" => rq.args.id # None}

(* ----------------------- process configuration ------------------------- *)

PageSizes == {10, 20}

\* app.config after from_pyfile("app.cfg")
Configs ==
    [SOLR_INDEX_0 : {"index0"}, SOLR_INDEX_1 : {"index1"}, NUM_RECS_PER_PAGE : PageSizes]

(* --------------------------- request state ----------------------------- *)

\* a request as the worker receives it, before its handler runs
Received(rq) ==
    [route |-> rq.route, args |-> rq.args, pc |-> "received", form |-> None,
     client |-> None, call |-> None, ncalls |-> 0, result |-> None, response |-> None]

\* request.args.get(name)
args_get(r, name) == r.args[name]

\* SearchClient(index, rows)
SearchClient(index, rows) == [index |-> index, rows |-> rows]

\* the handler blocks in a client operation
Invoke(r, client, op, q, fk, fa, page, label, n, id) ==
    [r EXCEPT !.pc = "calling",
              !.client = client,
              !.ncalls = @ + 1,
              !.call = [op |-> op, client |-> client, q |-> q, fk |-> fk, fa |-> fa,
                        page |-> page, label |-> label, n |-> n, id |-> id]]

\* render_template(name, **ctx)
render_template(name, ctx) == [status |-> "rendered", template |-> name, ctx |-> ctx, error |-> ""]

\* an exception leaves the handler: the framework answers with the error
Propagate(error) == [status |-> "error", template |-> "", ctx |-> None, error |-> error]

Finish(r, res, response) == [r EXCEPT !.pc = "done", !.result = res, !.response = response]

(* ------------------- the search client (services.py) ------------------- *)

Raised(error) == [raised |-> error, value |-> None]

Returned(value) == [raised |-> "", value |-> value]

\* offset of the first result of the page
Offset(page, rows) == IF HasIntValue(page) THEN IntObj((IntValue(page) - 1) * rows) ELSE None

\* the query search_index0 sends to the index
PlainQuery(call) ==
    [index |-> call.client.index, text |-> call.q, start |-> Offset(call.page, call.client.rows),
     rows |-> call.client.rows, filter |-> None, facet |-> None]

\* the query search_index1 sends to the index
FacetedQuery(call) ==
    [index |-> call.client.index, text |-> call.q, start |-> Offset(call.page, call.client.rows),
     rows |-> call.client.rows,
     filter |-> IF call.fk # None /\ call.fa # None THEN <<call.fk, call.fa>> ELSE None,
     facet |-> call.fk]

\* outcomes of client.search_index0(q, page, label, n): (meta, docs) or an error
search_index0(call) ==
    {Raised("UpstreamError"),
     Returned([meta |-> [page |-> PlainQuery(call)], docs |-> [hits |-> PlainQuery(call)]])}

\* outcomes of client.search_index1(q, fk, fa, page, label, n): (meta, facets, docs) or an error
search_index1(call) ==
    {Raised("UpstreamError"),
     Returned([meta |-> [page |-> FacetedQuery(call)],
               facets |-> IF call.fk # None THEN [counts |-> FacetedQuery(call)] ELSE None,
               docs |-> [hits |-> FacetedQuery(call)]])}

\* outcomes of client.get(id): the document or an error
get(call) ==
    {Raised("UpstreamError")}
    \cup (IF call.id.t = "str" /\ call.id.s \in KnownIds
          THEN {Returned([id |-> call.id.s, index |-> call.client.index])}
          ELSE {Raised("NotFound")})

(* ------------------------------ handlers ------------------------------- *)

Init ==
    /\ config \in Configs
    /\ reqs \in [{1} -> {Received(rq) : rq \in Requests}]

InitConc ==
    /\ config \in Configs
    /\ reqs \in [1..NumWorkers -> {Received(rq) : rq \in ConcRequests}]

\* mutant of page_or_default: the page parameter is dropped
page_always_default(page) == IntObj(1)

\* page = page if page else 1
page_or_default(page) == IF Truthy(page) THEN page ELSE IntObj(1)

\* mutant of content: a failed lookup renders the template without a document
content_renders_missing(w) ==
    /\ reqs[w].route = "/content"
    /\ \/ /\ reqs[w].pc = "received"
          /\ LET id == args_get(reqs[w], "id")
                 client == SearchClient(config.SOLR_INDEX_0, config.NUM_RECS_PER_PAGE)
             IN  reqs' = [reqs EXCEPT ![w] =
                     Invoke(@, client, "get", None, None, None, None, "", 0, id)]
       \/ /\ reqs[w].pc = "calling"
          /\ \E res \in get(reqs[w].call) :
                reqs' = [reqs EXCEPT ![w] =
                    Finish(@, res, render_template("content.html", [doc |-> res.value]))]
    /\ UNCHANGED config

content(w) ==
    /\ reqs[w].route = "/content"
    /\ \/ /\ reqs[w].pc = "received"
          /\ LET id == args_get(reqs[w], "id")
                 client == SearchClient(config.SOLR_INDEX_0, config.NUM_RECS_PER_PAGE)
             IN  reqs' = [reqs EXCEPT ![w] =
                     Invoke(@, client, "get", None, None, None, None, "", 0, id)]
       \/ /\ reqs[w].pc = "calling"
          /\ \E res \in get(reqs[w].call) :
                reqs' = [reqs EXCEPT ![w] =
                    IF res.raised # "" THEN Finish(@, res, Propagate(res.raised))
                    ELSE Finish(@, res, render_template("content.html", [doc |-> res.value]))]
    /\ UNCHANGED config

\* mutant of search0: a failed query is caught and the empty page rendered
search0_swallows_failure(w) ==
    /\ reqs[w].route = "/search0"
    /\ \/ /\ reqs[w].pc = "received"
          /\ LET q == args_get(reqs[w], "q")
                 page == page_or_default(args_get(reqs[w], "page"))
                 client == SearchClient(config.SOLR_INDEX_0, config.NUM_RECS_PER_PAGE)
             IN  reqs' = [reqs EXCEPT ![w] =
                     IF Truthy(q)
                     THEN Invoke(@, client, "search_index0", q, None, None, page, "search0", 0, None)
                     ELSE Finish(@, None,
                                 render_template("search0.html", [meta |-> None, docs |-> None]))]
       \/ /\ reqs[w].pc = "calling"
          /\ \E res \in search_index0(reqs[w].call) :
                reqs' = [reqs EXCEPT ![w] =
                    IF res.raised # ""
                    THEN Finish(@, res,
                                render_template("search0.html", [meta |-> None, docs |-> None]))
                    ELSE Finish(@, res,
                                render_template("search0.html",
                                    [meta |-> res.value.meta, docs |-> res.value.docs]))]
    /\ UNCHANGED config

search0(w) ==
    /\ reqs[w].route = "/search0"
    /\ \/ /\ reqs[w].pc = "received"
          /\ LET q == args_get(reqs[w], "q")
                 page == page_or_default(args_get(reqs[w], "page"))
                 client == SearchClient(config.SOLR_INDEX_0, config.NUM_RECS_PER_PAGE)
             IN  reqs' = [reqs EXCEPT ![w] =
                     IF Truthy(q)
                     THEN Invoke(@, client, "search_index0", q, None, None, page, "search0", 0, None)
                     ELSE Finish(@, None,
                                 render_template("search0.html", [meta |-> None, docs |-> None]))]
       \/ /\ reqs[w].pc = "calling"
          /\ \E res \in search_index0(reqs[w].call) :
                reqs' = [reqs EXCEPT ![w] =
                    IF res.raised # "" THEN Finish(@, res, Propagate(res.raised))
                    ELSE Finish(@, res,
                                render_template("search0.html",
                                    [meta |-> res.value.meta, docs |-> res.value.docs]))]
    /\ UNCHANGED config

search1(w) ==
    /\ reqs[w].route = "/search1"
    /\ \/ /\ reqs[w].pc = "received"
          /\ LET q == args_get(reqs[w], "q")
                 page == page_or_default(args_get(reqs[w], "page"))
                 client == SearchClient(config.SOLR_INDEX_0, config.NUM_RECS_PER_PAGE)
             IN  reqs' = [reqs EXCEPT ![w] =
                     IF Truthy(q)
                     THEN Invoke(@, client, "search_index0", q, None, None, page, "search1", 1, None)
                     ELSE Finish(@, None,
                                 render_template("search0.html", [meta |-> None, docs |-> None]))]
       \/ /\ reqs[w].pc = "calling"
          /\ \E res \in search_index0(reqs[w].call) :
                reqs' = [reqs EXCEPT ![w] =
                    IF res.raised # "" THEN Finish(@, res, Propagate(res.raised))
                    ELSE Finish(@, res,
                                render_template("search0.html",
                                    [meta |-> res.value.meta, docs |-> res.value.docs]))]
    /\ UNCHANGED config

\* mutant of search2: the client is built on the faceted index
search2_on_faceted_index(w) ==
    /\ reqs[w].route = "/search2"
    /\ \/ /\ reqs[w].pc = "received"
          /\ LET q == args_get(reqs[w], "q")
                 page == page_or_default(args_get(reqs[w], "page"))
                 client == SearchClient(config.SOLR_INDEX_1, config.NUM_RECS_PER_PAGE)
             IN  reqs' = [reqs EXCEPT ![w] =
                     IF Truthy(q)
                     THEN Invoke(@, client, "search_index0", q, None, None, page, "search2", 2, None)
                     ELSE Finish(@, None,
                                 render_template("search0.html", [meta |-> None, docs |-> None]))]
       \/ /\ reqs[w].pc = "calling"
          /\ \E res \in search_index0(reqs[w].call) :
                reqs' = [reqs EXCEPT ![w] =
                    IF res.raised # "" THEN Finish(@, res, Propagate(res.raised))
                    ELSE Finish(@, res,
                                render_template("search0.html",
                                    [meta |-> res.value.meta, docs |-> res.value.docs]))]
    /\ UNCHANGED config

search2(w) ==
    /\ reqs[w].route = "/search2"
    /\ \/ /\ reqs[w].pc = "received"
          /\ LET q == args_get(reqs[w], "q")
                 page == page_or_default(args_get(reqs[w], "page"))
                 client == SearchClient(config.SOLR_INDEX_0, config.NUM_RECS_PER_PAGE)
             IN  reqs' = [reqs EXCEPT ![w] =
                     IF Truthy(q)
                     THEN Invoke(@, client, "search_index0", q, None, None, page, "search2", 2, None)
                     ELSE Finish(@, None,
                                 render_template("search0.html", [meta |-> None, docs |-> None]))]
       \/ /\ reqs[w].pc = "calling"
          /\ \E res \in search_index0(reqs[w].call) :
                reqs' = [reqs EXCEPT ![w] =
                    IF res.raised # "" THEN Finish(@, res, Propagate(res.raised))
                    ELSE Finish(@, res,
                                render_template("search0.html",
                                    [meta |-> res.value.meta, docs |-> res.value.docs]))]
    /\ UNCHANGED config

\* mutant of search3: the client is kept in a module-level variable that
\* every request in flight uses
search3_shared_client(w) ==
    /\ reqs[w].route = "/search3"
    /\ \/ /\ reqs[w].pc = "received"
          /\ LET q == args_get(reqs[w], "q")
                 fk == args_get(reqs[w], "fk")
                 fa == args_get(reqs[w], "fa")
                 page == page_or_default(args_get(reqs[w], "page"))
                 client == SearchClient(config.SOLR_INDEX_1, config.NUM_RECS_PER_PAGE)
             IN  reqs' = [v \in DOMAIN reqs |->
                     IF v = w
                     THEN IF Truthy(q)
                          THEN Invoke(reqs[v], client, "search_index1", q, fk, fa, page,
                                      "search3", 1, None)
                          ELSE Finish(reqs[v], None,
                                      render_template("search1.html",
                                          [meta |-> None, facets |-> None, docs |-> None]))
                     ELSE IF Truthy(q) /\ reqs[v].pc = "calling"
                          THEN [reqs[v] EXCEPT !.client = client, !.call.client = client]
                          ELSE reqs[v]]
       \/ /\ reqs[w].pc = "calling"
          /\ \E res \in search_index1(reqs[w].call) :
                reqs' = [reqs EXCEPT ![w] =
                    IF res.raised # "" THEN Finish(@, res, Propagate(res.raised))
                    ELSE Finish(@, res,
                                render_template("search1.html",
                                    [meta |-> res.value.meta, facets |-> res.value.facets,
                                     docs |-> res.value.docs]))]
    /\ UNCHANGED config

search3(w) ==
    /\ reqs[w].route = "/search3"
    /\ \/ /\ reqs[w].pc = "received"
          /\ LET q == args_get(reqs[w], "q")
                 fk == args_get(reqs[w], "fk")
                 fa == args_get(reqs[w], "fa")
                 page == page_or_default(args_get(reqs[w], "page"))
                 client == SearchClient(config.SOLR_INDEX_1, config.NUM_RECS_PER_PAGE)
             IN  reqs' = [reqs EXCEPT ![w] =
                     IF Truthy(q)
                     THEN Invoke(@, client, "search_index1", q, fk, fa, page, "search3", 1, None)
                     ELSE Finish(@, None,
                                 render_template("search1.html",
                                     [meta |-> None, facets |-> None, docs |-> None]))]
       \/ /\ reqs[w].pc = "calling"
          /\ \E res \in search_index1(reqs[w].call) :
                reqs' = [reqs EXCEPT ![w] =
                    IF res.raised # "" THEN Finish(@, res, Propagate(res.raised))
                    ELSE Finish(@, res,
                                render_template("search1.html",
                                    [meta |-> res.value.meta, facets |-> res.value.facets,
                                     docs |-> res.value.docs]))]
    /\ UNCHANGED config

\* mutant of search4: fk and fa are handed over in the wrong order
search4_swaps_facet_args(w) ==
    /\ reqs[w].route = "/search4"
    /\ \/ /\ reqs[w].pc = "received"
          /\ LET q == args_get(reqs[w], "q")
                 fk == args_get(reqs[w], "fk")
                 fa == args_get(reqs[w], "fa")
                 page == page_or_default(args_get(reqs[w], "page"))
                 client == SearchClient(config.SOLR_INDEX_1, config.NUM_RECS_PER_PAGE)
             IN  reqs' = [reqs EXCEPT ![w] =
                     IF Truthy(q)
                     THEN Invoke(@, client, "search_index1", q, fa, fk, page, "search4", 3, None)
                     ELSE Finish(@, None,
                                 render_template("search1.html",
                                     [meta |-> None, facets |-> None, docs |-> None]))]
       \/ /\ reqs[w].pc = "calling"
          /\ \E res \in search_index1(reqs[w].call) :
                reqs' = [reqs EXCEPT ![w] =
                    IF res.raised # "" THEN Finish(@, res, Propagate(res.raised))
                    ELSE Finish(@, res,
                                render_template("search1.html",
                                    [meta |-> res.value.meta, facets |-> res.value.facets,
                                     docs |-> res.value.docs]))]
    /\ UNCHANGED config

search4(w) ==
    /\ reqs[w].route = "/search4"
    /\ \/ /\ reqs[w].pc = "received"
          /\ LET q == args_get(reqs[w], "q")
                 fk == args_get(reqs[w], "fk")
                 fa == args_get(reqs[w], "fa")
                 page == page_or_default(args_get(reqs[w], "page"))
                 client == SearchClient(config.SOLR_INDEX_1, config.NUM_RECS_PER_PAGE)
             IN  reqs' = [reqs EXCEPT ![w] =
                     IF Truthy(q)
                     THEN Invoke(@, client, "search_index1", q, fk, fa, page, "search4", 3, None)
                     ELSE Finish(@, None,
                                 render_template("search1.html",
                                     [meta |-> None, facets |-> None, docs |-> None]))]
       \/ /\ reqs[w].pc = "calling"
          /\ \E res \in search_index1(reqs[w].call) :
                reqs' = [reqs EXCEPT ![w] =
                    IF res.raised # "" THEN Finish(@, res, Propagate(res.raised))
                    ELSE Finish(@, res,
                                render_template("search1.html",
                                    [meta |-> res.value.meta, facets |-> res.value.facets,
                                     docs |-> res.value.docs]))]
    /\ UNCHANGED config

Next ==
    \/ \E w \in DOMAIN reqs : content(w)
    \/ \E w \in DOMAIN reqs : search0(w)
    \/ \E w \in DOMAIN reqs : search1(w)
    \/ \E w \in DOMAIN reqs : search2(w)
    \/ \E w \in DOMAIN reqs : search3(w)
    \/ \E w \in DOMAIN reqs : search4(w)

Spec == Init /\ [][Next]_vars

SpecConc == InitConc /\ [][Next]_vars

(* ------------------------------ properties ----------------------------- *)

Workers == DOMAIN reqs

\* a q parameter that is absent, empty or whitespace only
IsBlank(v) == v.t = "none" \/ (v.t = "str" /\ Strip(v.s) = <<>>)

\* the handler of the request has invoked a client operation
Called(r) == r.ncalls > 0

\* every value handed to the template is None
EmptyContext(response) ==
    /\ response.status = "rendered"
    /\ \A k \in DOMAIN response.ctx : response.ctx[k] = None

\* C1: a search request whose q is absent or blank (empty or whitespace only)
\* never invokes the search client, and its template is rendered with meta,
\* docs and facets all None.
C1_BlankQueryNeverCallsClient ==
    \A w \in Workers :
        (reqs[w].route \in SearchRoutes /\ IsBlank(reqs[w].args.q))
            => /\ ~Called(reqs[w])
               /\ reqs[w].pc = "done" => EmptyContext(reqs[w].response)

\* C2: when the page parameter of a search request is absent or does not
\* parse as a number, the page handed to the client operation is the integer 1.
C2_UnparsablePageIsOne ==
    \A w \in Workers :
        (reqs[w].route \in SearchRoutes /\ Called(reqs[w]) /\ ~HasIntValue(reqs[w].args.page))
            => reqs[w].call.page = IntObj(1)

\* C3: whenever search_index0 or search_index1 is invoked, the page it
\* receives is a number >= 1, also when the request carries page=0 or a
\* negative page.
C3_CalledPageAtLeastOne ==
    \A w \in Workers :
        (reqs[w].route \in SearchRoutes /\ Called(reqs[w]))
            => /\ HasIntValue(reqs[w].call.page)
               /\ IntValue(reqs[w].call.page) >= 1

\* C4: a search client operation is invoked only after the Input Form
\* validated the request, and only if that validation succeeded.
C4_ValidatedBeforeCall ==
    \A w \in Workers :
        (reqs[w].route \in SearchRoutes /\ Called(reqs[w]))
            => /\ reqs[w].form # None
               /\ reqs[w].form.valid

\* the operation and the index configuration key the routes table gives a route
BoundOp(route) == IF route \in PlainRoutes THEN "search_index0" ELSE "search_index1"

BoundIndex(route) == IF route \in PlainRoutes THEN "SOLR_INDEX_0" ELSE "SOLR_INDEX_1"

\* C5: with a non-blank q, /search0, /search1 and /search2 invoke
\* search_index0 on a client of SOLR_INDEX_0, /search3 and /search4 invoke
\* search_index1 on a client of SOLR_INDEX_1; the client always has the
\* configured NUM_RECS_PER_PAGE, and no route invokes the other operation or
\* the other index.
C5_RouteBinding ==
    \A w \in Workers :
        reqs[w].route \in SearchRoutes
            => /\ (~IsBlank(reqs[w].args.q) /\ reqs[w].pc # "received") => Called(reqs[w])
               /\ Called(reqs[w])
                    => /\ reqs[w].call.op = BoundOp(reqs[w].route)
                       /\ reqs[w].call.client.index = config[BoundIndex(reqs[w].route)]
                       /\ reqs[w].call.client.rows = config.NUM_RECS_PER_PAGE

C5_Witness ==
    /\ \E w \in Workers :
            /\ reqs[w].route = "/search2"
            /\ ~IsBlank(reqs[w].args.q)
            /\ reqs[w].pc = "done"
            /\ reqs[w].call.client.index = "index0"
    /\ config.NUM_RECS_PER_PAGE = 20

\* the client operation of the request failed
Failed(r) == r.pc = "done" /\ r.result # None /\ r.result.raised # ""

\* C6: a request invokes the client at most once, and a failed invocation
\* ends the request in the error it raised, with no template rendered.
C6_SingleCallFailureSurfaces ==
    \A w \in Workers :
        /\ reqs[w].ncalls <= 1
        /\ Failed(reqs[w])
            => /\ reqs[w].ncalls = 1
               /\ reqs[w].response.status = "error"
               /\ reqs[w].response.error = reqs[w].result.raised
               /\ reqs[w].response.template = ""

C6_Witness ==
    \E w \in Workers :
        /\ reqs[w].route = "/search0"
        /\ Failed(reqs[w])
        /\ reqs[w].response.error = "UpstreamError"

KnownId(id) == id.t = "str" /\ id.s \in KnownIds

\* C7: /content with the id of a document of the plain index renders the
\* document get returned for that id; with an id the index does not hold the
\* content template is not rendered and the NotFound of get is the outcome.
C7_ContentLookup ==
    \A w \in Workers :
        (reqs[w].route = "/content" /\ reqs[w].pc = "done")
            => /\ reqs[w].call.op = "get"
               /\ reqs[w].call.id = reqs[w].args.id
               /\ reqs[w].call.client.index = config.SOLR_INDEX_0
               /\ (KnownId(reqs[w].args.id) /\ ~Failed(reqs[w]))
                    => /\ reqs[w].response
                            = render_template("content.html", [doc |-> reqs[w].result.value])
                       /\ reqs[w].result.value.id = reqs[w].args.id.s
               /\ ~KnownId(reqs[w].args.id)
                    => /\ reqs[w].response.status = "error"
                       /\ reqs[w].result.raised = "NotFound"
                            => reqs[w].response.error = "NotFound"

C7_Witness ==
    \E w \in Workers :
        /\ reqs[w].route = "/content"
        /\ reqs[w].pc = "done"
        /\ reqs[w].args.id = StrObj(<<"d", "9">>)
        /\ reqs[w].response.error = "NotFound"

\* C8: on /search3 and /search4 with a non-blank q, fk and fa reach
\* search_index1 as the request gave them (absent stays absent); the filter
\* fk=fa is applied only when both are present, facet counts are on fk when
\* it is present and there are no facets when it is absent.
C8_FacetArgsPassThrough ==
    \A w \in Workers :
        (reqs[w].route \in FacetedRoutes /\ ~IsBlank(reqs[w].args.q) /\ reqs[w].pc # "received")
            => /\ reqs[w].call.op = "search_index1"
               /\ reqs[w].call.fk = reqs[w].args.fk
               /\ reqs[w].call.fa = reqs[w].args.fa
               /\ FacetedQuery(reqs[w].call).filter
                    = IF reqs[w].args.fk # None /\ reqs[w].args.fa # None
                      THEN <<reqs[w].args.fk, reqs[w].args.fa>>
                      ELSE None
               /\ FacetedQuery(reqs[w].call).facet = reqs[w].args.fk
               /\ reqs[w].response # None /\ reqs[w].response.status = "rendered"
                    => (reqs[w].response.ctx.facets = None <=> reqs[w].args.fk = None)

C8_Witness ==
    \E w \in Workers :
        /\ reqs[w].route = "/search4"
        /\ reqs[w].args.q = StrObj(cats)
        /\ reqs[w].args.fk # None
        /\ reqs[w].args.fa = None
        /\ reqs[w].pc = "done"
        /\ reqs[w].response.status = "rendered"
        /\ reqs[w].response.ctx.facets # None
        /\ FacetedQuery(reqs[w].call).filter = None

\* the query the client operation of the call sends to the index
QueryOf(call) == IF call.op = "search_index0" THEN PlainQuery(call) ELSE FacetedQuery(call)

Course(r) == <<r.route, r.args, r.pc, r.result>>

\* C10: under any interleaving of the workers, the configuration is never
\* modified, a step of one request changes the state of no other request,
\* the call in flight is on the client the request built itself, and two
\* requests that went through the same course hold the same client, call
\* and response.
C10_RequestsIsolated ==
    /\ [][/\ config' = config
          /\ \E w \in Workers : \A v \in Workers \ {w} : reqs'[v] = reqs[v]]_vars
    /\ [](\A v, w \in Workers :
            /\ Called(reqs[w]) => reqs[w].call.client = reqs[w].client
            /\ Course(reqs[v]) = Course(reqs[w]) => reqs[v] = reqs[w])

C10_Witness ==
    \E v, w \in Workers :
        /\ v # w
        /\ reqs[v].route = "/search0"
        /\ reqs[w].route = "/search3"
        /\ reqs[v].pc = "calling"
        /\ reqs[w].pc = "calling"

====
